---------------------------- MODULE Spec2Model ----------------------------
(***************************************************************************)
(* The client of PyMapReduce (src/client/client.py) and the message        *)
(* vocabulary it uses (src/messages.py): the reactor loop Client.run, the  *)
(* job state machine Client.do_processing, the two hooks a running task    *)
(* calls back (heartbeat, completion) and the socket they share.           *)
(*                                                                         *)
(* Text is a sequence of code points, bytes a sequence of integers 0..255; *)
(* an optional value is <<>> (Python's None) or <<v>>.                     *)
(***************************************************************************)
EXTENDS Integers, Sequences, FiniteSets, TLC

\* ------------------------------------------------------------------ bounds
\* Number of messages the server sends on the connection in one run.
MaxInbound == 5
\* The same, in runs that draw on the whole job vocabulary.
MaxDispatch == 3
\* Number of heartbeats a running task emits before it completes.
MaxBeats == 1

\* ---------------------------------------------------------------- optionals
None == <<>>
Some(x) == <<x>>
Val(o) == o[1]

\* ------------------------------------------------------------------- text
\* 'Mapper', 'Reducer' and 'partition_' as code points.
MapperStr == <<77, 97, 112, 112, 101, 114>>
ReducerStr == <<82, 101, 100, 117, 99, 101, 114>>
PartitionPrefix == <<112, 97, 114, 116, 105, 116, 105, 111, 110, 95>>
\* JobInstructionsFileMessage.separator, ';;'
separator == <<59, 59>>

\* bytes(s, encoding='utf-8') for code points below 0x800.
RECURSIVE Utf8Encode(_)
Utf8Encode(s) ==
    IF s = <<>> THEN <<>>
    ELSE LET c == Head(s) IN
         (IF c < 128 THEN <<c>> ELSE <<192 + (c \div 64), 128 + (c % 64)>>)
            \o Utf8Encode(Tail(s))

\* str(b, encoding='utf-8') for one- and two-byte sequences: the text, or
\* None where Python raises UnicodeDecodeError.
RECURSIVE Utf8Decode(_)
Utf8Decode(b) ==
    IF b = <<>> THEN Some(<<>>)
    ELSE IF b[1] < 128
         THEN LET r == Utf8Decode(Tail(b)) IN
              IF r = None THEN None ELSE Some(<<b[1]>> \o Val(r))
    ELSE IF b[1] >= 194 /\ b[1] < 224 /\ Len(b) >= 2 /\ b[2] >= 128 /\ b[2] < 192
         THEN LET r == Utf8Decode(Tail(Tail(b))) IN
              IF r = None THEN None
              ELSE Some(<<(b[1] - 192) * 64 + (b[2] - 128)>> \o Val(r))
    ELSE None

\* s.split(sep): scan left to right, cutting at each non-overlapping sep.
RECURSIVE SplitFrom(_, _, _, _, _)
SplitFrom(s, sep, i, cur, acc) ==
    IF i > Len(s) THEN Append(acc, cur)
    ELSE IF i + Len(sep) - 1 <= Len(s) /\ SubSeq(s, i, i + Len(sep) - 1) = sep
         THEN SplitFrom(s, sep, i + Len(sep), <<>>, Append(acc, cur))
         ELSE SplitFrom(s, sep, i + 1, Append(cur, s[i]), acc)

Split(s, sep) == SplitFrom(s, sep, 1, <<>>, <<>>)

IsDigit(c) == c >= 48 /\ c <= 57

RECURSIVE DigitsValue(_, _)
DigitsValue(s, acc) ==
    IF s = <<>> THEN acc ELSE DigitsValue(Tail(s), acc * 10 + (Head(s) - 48))

\* int(s) for a sign and decimal digits: Some(n), or None where Python
\* raises ValueError.
ParseInt(s) ==
    LET signed == s # <<>> /\ s[1] \in {43, 45}
        digits == IF signed THEN Tail(s) ELSE s
    IN  IF digits = <<>> \/ \E i \in 1..Len(digits) : ~IsDigit(digits[i])
        THEN None
        ELSE IF signed /\ s[1] = 45 THEN Some(0 - DigitsValue(digits, 0))
             ELSE Some(DigitsValue(digits, 0))

\* '{}'.format(n) for an integer n.
RECURSIVE NatToStr(_)
NatToStr(n) ==
    IF n < 10 THEN <<48 + n>> ELSE Append(NatToStr(n \div 10), 48 + (n % 10))

IntToStr(n) == IF n < 0 THEN <<45>> \o NatToStr(0 - n) ELSE NatToStr(n)

\* --------------------------------------------------------------- messages
\* Message(m_type, body): the body is None or Some(text) for a message the
\* client builds, Some(bytes) for a message read from the connection.
Message(m_type, body) == [m_type |-> m_type, body |-> body]

SubscribeMessage == Message("SUBSCRIBE_MESSAGE", None)
JobReadyToReceiveMessage == Message("JOB_READY_TO_RECEIVE", None)
JobInstructionsFileAckMessage == Message("JOB_INSTRUCTIONS_FILE_ACK", None)
DataFileAckMessage == Message("DATAFILE_ACK", None)
JobDoneMessage(path) == Message("JOB_DONE", Some(path))
\* separator.join([progress, rate]) of the two counters as text
JobHeartbeatMessage(progress, rate) ==
    Message("JOB_HEARTBEAT", Some(progress \o separator \o rate))

\* Faulty variant: the body handed on as the bytes received.
get_body_raw(message) == message.body

\* Message.get_body(): the decoded text, or None where str() raises
\* (TypeError on an absent body, UnicodeDecodeError on bad bytes).
get_body(message) ==
    IF message.body = None THEN None ELSE Utf8Decode(Val(message.body))

\* sep.join(fields)
RECURSIVE Join(_, _)
Join(fields, sep) ==
    IF Len(fields) = 0 THEN <<>>
    ELSE IF Len(fields) = 1 THEN fields[1]
    ELSE fields[1] \o sep \o Join(Tail(fields), sep)

\* ------------------------------------------------- what the server sends
\* Module names, class names, counts and paths the inbound bodies are built
\* from: 'm', 'Combiner', '2', '0', '7', 'x', and the path '/\u00e9',
\* three bytes on the wire.
RefM == <<109>>
CombinerStr == <<67, 111, 109, 98, 105, 110, 101, 114>>
DataD == <<47, 233>>

\* A frame as PMRConnection.receive() hands it over: opcode and body bytes.
Frame(m_type, text) == Message(m_type, Some(Utf8Encode(text)))

InstrMapper == Frame("JOB_INSTRUCTIONS_FILE",
                     Join(<<RefM, MapperStr, <<50>>, <<48>>>>, separator))
InstrReducer == Frame("JOB_INSTRUCTIONS_FILE",
                      Join(<<RefM, ReducerStr, <<50>>, <<55>>>>, separator))
InstrCombiner == Frame("JOB_INSTRUCTIONS_FILE",
                       Join(<<RefM, CombinerStr, <<50>>, <<48>>>>, separator))
InstrThreeFields == Frame("JOB_INSTRUCTIONS_FILE",
                          Join(<<RefM, MapperStr, <<50>>>>, separator))
InstrBadCount == Frame("JOB_INSTRUCTIONS_FILE",
                       Join(<<RefM, MapperStr, <<120>>, <<48>>>>, separator))
\* 'q' names no module the client can import.
InstrUnknownModule == Frame("JOB_INSTRUCTIONS_FILE",
                            Join(<<<<113>>, MapperStr, <<50>>, <<48>>>>,
                                 separator))
JobReady == Frame("JOB_READY", <<52, 50>>)
DataFile == Frame("DATAFILE", DataD)
JobStart == Message("JOB_START", Some(<<>>))
SubscribeAck == Frame("SUBSCRIBE_ACK_MESSAGE", <<49>>)

\* The messages of a well-formed mapper job cycle.
CycleMsgs == {JobReady, InstrMapper, DataFile, JobStart}

\* The messages of a job cycle, well formed and not.
JobMsgs == {JobReady, InstrMapper, InstrReducer, InstrCombiner,
            InstrThreeFields, InstrBadCount, InstrUnknownModule,
            DataFile, JobStart, SubscribeAck}

\* The environment of JOB_START: modules importlib can import, the classes
\* they define, and the files open() finds.
ImportableModules == {RefM}
ModuleClasses == {MapperStr, ReducerStr, CombinerStr}
ExistingFiles == {DataD}

\* ------------------------------------------------------------------ state
VARIABLES
    message_write_queue,   \* Client.message_write_queue
    message_read_queue,    \* Client.message_read_queue
    has_job, instructions_file, instructions_type,
    data_path, num_workers, partition_num,     \* the job context
    pc,                    \* where Client.run is: proc, select, read, write, task, crashed
    error,                 \* the exception that ended run, or "none"
    sel,                   \* what select() returned: [r, w]
    net,                   \* frames the server has sent, not yet received
    conn_out,              \* frames given to connection.send_message, not yet written
    sent,                  \* frames written to the socket, in order
    sock_writable,         \* the socket's send buffer has room
    last_flush,            \* history: the messages the last flush of run took
    task_pc,               \* the task: none, running, resetting, finished
    hb_pc,                 \* the heartbeat thread: idle, write
    beats,                 \* heartbeats emitted by the running task
    out_path,              \* out_path of the running job
    out_open,              \* out_file is open
    fs_fresh,              \* writable paths handed out by SimpleFileSystem
    processed,             \* history: messages do_processing has dequeued
    enqueued,              \* history: messages appended to message_write_queue
    instances,             \* the Client objects constructed in the process
    codec_msg,             \* a message given to the codec
    codec_hdr,             \* what get_header_for_send returned for it
    codec_body             \* what get_body_for_send returned for it

context == <<has_job, instructions_file, instructions_type,
             data_path, num_workers, partition_num>>
queues == <<message_write_queue, message_read_queue>>
reactor == <<pc, error, sel>>
wire == <<net, conn_out, sent, sock_writable, last_flush>>
taskv == <<task_pc, hb_pc, beats, out_path, out_open, fs_fresh>>
hist == <<processed, enqueued>>
\* State outside the one client's run: other instances, the codec on its own.
aux == <<instances, codec_msg, codec_hdr, codec_body>>
vars == <<context, queues, reactor, wire, taskv, hist, aux>>

\* Faulty variant: nothing queued before the connection is made.
EmptyWriteQueue == <<>>

\* The class attribute message_write_queue as the class body leaves it.
InitialWriteQueue == <<SubscribeMessage>>

\* Client.__init__ and the class attributes, for the instance that runs.
ClientInit ==
    /\ message_write_queue = InitialWriteQueue
    /\ message_read_queue = <<>>
    /\ has_job = FALSE
    /\ instructions_file = None
    /\ instructions_type = None
    /\ data_path = None
    /\ num_workers = None
    /\ partition_num = None
    /\ pc = "proc"
    /\ error = "none"
    /\ sel = [r |-> FALSE, w |-> FALSE]
    /\ net = <<>>
    /\ conn_out = <<>>
    /\ sent = <<>>
    /\ sock_writable = TRUE
    /\ last_flush = <<>>
    /\ task_pc = "none"
    /\ hb_pc = "idle"
    /\ beats = 0
    /\ out_path = None
    /\ out_open = FALSE
    /\ fs_fresh = 0
    /\ processed = <<>>
    /\ enqueued = InitialWriteQueue

\* One Client, and no message at the codec.
Init ==
    /\ ClientInit
    /\ instances = {"A"}
    /\ codec_msg = None
    /\ codec_hdr = None
    /\ codec_body = None

\* ------------------------------------------------------- helper outcomes
\* A call returns a value or raises: [exc |-> "none", val |-> <<v>>] or
\* [exc |-> <exception class>, val |-> <<>>].
Ret(v) == [exc |-> "none", val |-> Some(v)]
Raise(e) == [exc |-> e, val |-> None]

\* What message.get_body() raises when it does.
BodyError(message) ==
    IF message.body = None THEN "TypeError" ELSE "UnicodeDecodeError"

\* message.get_body().split(separator)[i], counting from 1.
FieldOf(message, i) ==
    LET body == get_body(message) IN
    IF body = None THEN Raise(BodyError(message))
    ELSE LET fields == Split(Val(body), separator) IN
         IF Len(fields) < i THEN Raise("IndexError") ELSE Ret(fields[i])

\* int(field)
IntOf(field) ==
    IF field.exc # "none" THEN field
    ELSE LET n == ParseInt(Val(field.val)) IN
         IF n = None THEN Raise("ValueError") ELSE Ret(Val(n))

get_path_from_message(message) == FieldOf(message, 1)
get_type_from_message(message) == FieldOf(message, 2)
get_num_workers_from_message(message) == IntOf(FieldOf(message, 3))
\* Faulty variant: the partition number read from the worker-count field.
get_partition_num_off_by_one(message) == IntOf(FieldOf(message, 3))

get_partition_num_from_message(message) == IntOf(FieldOf(message, 4))

\* -------------------------------------------------------- do_processing
Enqueue(m) ==
    /\ message_write_queue' = Append(message_write_queue, m)
    /\ enqueued' = Append(enqueued, m)

NoEnqueue == UNCHANGED <<message_write_queue, enqueued>>

\* do_processing returns to run, which goes on to select().
Return == pc' = "select" /\ error' = error

\* An exception leaves do_processing and run: the client stops.
Crash(e) == pc' = "crashed" /\ error' = e

\* Faulty variant: JOB_READY accepted whether or not a job is held.
ProcessJobReadyAlways(message) ==
    /\ has_job' = TRUE
    /\ Enqueue(JobReadyToReceiveMessage)
    /\ UNCHANGED <<instructions_file, instructions_type, data_path,
                   num_workers, partition_num>>
    /\ Return
    /\ UNCHANGED <<task_pc, out_path, out_open, fs_fresh, beats>>

\* Faulty variant: JOB_READY accepted without the reply.
ProcessJobReadySilent(message) ==
    /\ has_job' = TRUE
    /\ NoEnqueue
    /\ UNCHANGED <<instructions_file, instructions_type, data_path,
                   num_workers, partition_num>>
    /\ Return
    /\ UNCHANGED <<task_pc, out_path, out_open, fs_fresh, beats>>

\* JOB_READY: accepted when no job is held, skipped otherwise.
ProcessJobReady(message) ==
    /\ IF ~has_job
       THEN has_job' = TRUE /\ Enqueue(JobReadyToReceiveMessage)
       ELSE has_job' = has_job /\ NoEnqueue
    /\ UNCHANGED <<instructions_file, instructions_type, data_path,
                   num_workers, partition_num>>
    /\ Return
    /\ UNCHANGED <<task_pc, out_path, out_open, fs_fresh, beats>>

\* JOB_INSTRUCTIONS_FILE: four assignments in order, each able to raise
\* after the ones before it have taken effect, then the acknowledgement.
ProcessJobInstructionsFile(message) ==
    LET path == get_path_from_message(message)
        type == get_type_from_message(message)
        workers == get_num_workers_from_message(message)
        partition == get_partition_num_from_message(message)
        ok1 == path.exc = "none"
        ok2 == ok1 /\ type.exc = "none"
        ok3 == ok2 /\ workers.exc = "none"
        ok4 == ok3 /\ partition.exc = "none"
    IN  /\ instructions_file' = IF ok1 THEN path.val ELSE instructions_file
        /\ instructions_type' = IF ok2 THEN type.val ELSE instructions_type
        /\ num_workers' = IF ok3 THEN workers.val ELSE num_workers
        /\ partition_num' = IF ok4 THEN partition.val ELSE partition_num
        /\ UNCHANGED <<has_job, data_path>>
        /\ IF ok4
           THEN Enqueue(JobInstructionsFileAckMessage) /\ Return
           ELSE /\ NoEnqueue
                /\ Crash(IF ~ok1 THEN path.exc ELSE IF ~ok2 THEN type.exc
                         ELSE IF ~ok3 THEN workers.exc ELSE partition.exc)
        /\ UNCHANGED <<task_pc, out_path, out_open, fs_fresh, beats>>

\* Faulty variant: DATAFILE stored without the acknowledgement.
ProcessDataFileNoAck(message) ==
    LET body == get_body(message) IN
    /\ IF body # None
       THEN data_path' = body /\ NoEnqueue /\ Return
       ELSE data_path' = data_path /\ NoEnqueue /\ Crash(BodyError(message))
    /\ UNCHANGED <<has_job, instructions_file, instructions_type,
                   num_workers, partition_num>>
    /\ UNCHANGED <<task_pc, out_path, out_open, fs_fresh, beats>>

\* DATAFILE: the body becomes data_path.
ProcessDataFile(message) ==
    LET body == get_body(message) IN
    /\ IF body # None
       THEN data_path' = body /\ Enqueue(DataFileAckMessage) /\ Return
       ELSE data_path' = data_path /\ NoEnqueue /\ Crash(BodyError(message))
    /\ UNCHANGED <<has_job, instructions_file, instructions_type,
                   num_workers, partition_num>>
    /\ UNCHANGED <<task_pc, out_path, out_open, fs_fresh, beats>>

\* ------------------------------------------------------------- JOB_START
\* SimpleFileSystem: a writable path not handed out before, and the path of
\* a named file ('/w<n>' and '/<name>').
get_writeable_file_path(n) == <<47, 119>> \o IntToStr(n)
get_file_with_name(name) == <<47>> \o name

\* 'partition_{}'.format(self.partition_num)
PartitionName(partition) ==
    PartitionPrefix \o (IF partition = None THEN <<78, 111, 110, 101>>
                        ELSE IntToStr(Val(partition)))

\* importlib.import_module(self.instructions_file)
ImportModule(file) ==
    IF file = None THEN Raise("AttributeError")
    ELSE IF Val(file) = <<>> THEN Raise("ValueError")
    ELSE IF Val(file) \notin ImportableModules THEN Raise("ModuleNotFoundError")
    ELSE Ret(Val(file))

\* getattr(pkg, self.instructions_type)
GetClass(type) ==
    IF type = None THEN Raise("TypeError")
    ELSE IF Val(type) \notin ModuleClasses THEN Raise("AttributeError")
    ELSE Ret(Val(type))

\* Faulty variant: open() accepts whatever it is given.
OpenDataAny(path) == Ret(path)

\* open(self.data_path, 'r')
OpenData(path) ==
    IF path = None THEN Raise("TypeError")
    ELSE IF Val(path) \notin ExistingFiles THEN Raise("FileNotFoundError")
    ELSE Ret(Val(path))

\* The if/elif that binds out_path, and fs.open(out_path, 'w') reading it:
\* a kind that is neither leaves the name unbound.
ResolveOutPath(type, partition, fresh) ==
    IF type = Some(MapperStr) THEN Ret(get_writeable_file_path(fresh))
    ELSE IF type = Some(ReducerStr)
         THEN Ret(get_file_with_name(PartitionName(partition)))
    ELSE Raise("UnboundLocalError")

\* JOB_START: import the module, take the class, open the data, resolve the
\* output path, open it, build the task, register the hooks, task.run().
ProcessJobStart(message) ==
    LET pkg == ImportModule(instructions_file)
        cls == GetClass(instructions_type)
        in_file == OpenData(data_path)
        path == ResolveOutPath(instructions_type, partition_num, fs_fresh)
        exc == IF pkg.exc # "none" THEN pkg.exc
               ELSE IF cls.exc # "none" THEN cls.exc
               ELSE IF in_file.exc # "none" THEN in_file.exc
               ELSE path.exc
    IN  /\ UNCHANGED context
        /\ NoEnqueue
        /\ IF exc = "none"
           THEN /\ pc' = "task" /\ error' = error
                /\ task_pc' = "running"
                /\ out_path' = path.val
                /\ out_open' = TRUE
                /\ fs_fresh' = IF instructions_type = Some(MapperStr)
                               THEN fs_fresh + 1 ELSE fs_fresh
                /\ beats' = 0
           ELSE /\ Crash(exc)
                /\ UNCHANGED <<task_pc, out_path, out_open, fs_fresh, beats>>

\* Faulty variant: an opcode without a branch is answered like a DATAFILE.
ProcessOtherAcks(message) ==
    /\ UNCHANGED context
    /\ Enqueue(DataFileAckMessage)
    /\ Return
    /\ UNCHANGED <<task_pc, out_path, out_open, fs_fresh, beats>>

\* Any other opcode falls through the if/elif chain.
ProcessOther(message) ==
    /\ UNCHANGED context
    /\ NoEnqueue
    /\ Return
    /\ UNCHANGED <<task_pc, out_path, out_open, fs_fresh, beats>>

Dispatch(message) ==
    IF message.m_type = "JOB_READY" THEN ProcessJobReady(message)
    ELSE IF message.m_type = "JOB_INSTRUCTIONS_FILE"
         THEN ProcessJobInstructionsFile(message)
    ELSE IF message.m_type = "DATAFILE" THEN ProcessDataFile(message)
    ELSE IF message.m_type = "JOB_START" THEN ProcessJobStart(message)
    ELSE ProcessOther(message)

\* Client.do_processing: at most one message leaves the inbound queue.
DoProcessing ==
    /\ pc = "proc"
    /\ IF message_read_queue # <<>>
       THEN /\ message_read_queue' = Tail(message_read_queue)
            /\ processed' = Append(processed, Head(message_read_queue))
            /\ Dispatch(Head(message_read_queue))
       ELSE /\ Return
            /\ UNCHANGED <<context, queues, hist, taskv>>
    /\ UNCHANGED <<sel, wire, hb_pc>>
    /\ UNCHANGED aux

\* ----------------------------------------------------------- connection
\* PMRConnection.send_message(message): the frame joins the pending output.
send_message(pending, message) == Append(pending, message)

\* PMRConnection.write(): the pending output goes to the socket, in order.
\* The socket blocks while its send buffer is full; a write may fill it.
ConnectionWrite(pending) ==
    /\ sock_writable
    /\ sent' = sent \o pending
    /\ conn_out' = <<>>
    /\ sock_writable' \in BOOLEAN

\* ------------------------------------------------------------ task hooks
\* str(task.progress) and str(task.progress / elapsed) after n units of
\* work and one second.
ProgressText(n) == IntToStr(n)
RateText(n) == IntToStr(n) \o <<46, 48>>

\* The beat method, first element: connection.send_message(heartbeat).
BeatSend ==
    /\ task_pc = "running"
    /\ hb_pc = "idle"
    /\ beats < MaxBeats
    /\ beats' = beats + 1
    /\ conn_out' = send_message(conn_out,
                       JobHeartbeatMessage(ProgressText(beats + 1),
                                           RateText(beats + 1)))
    /\ hb_pc' = "write"
    /\ UNCHANGED <<context, queues, reactor, hist>>
    /\ UNCHANGED <<net, sent, sock_writable, last_flush>>
    /\ UNCHANGED <<task_pc, out_path, out_open, fs_fresh>>
    /\ UNCHANGED aux

\* The beat method, second element: connection.write().
BeatWrite ==
    /\ hb_pc = "write"
    /\ ConnectionWrite(conn_out)
    /\ hb_pc' = "idle"
    /\ UNCHANGED <<context, queues, reactor, hist>>
    /\ UNCHANGED <<net, last_flush, task_pc, beats, out_path, out_open, fs_fresh>>
    /\ UNCHANGED aux

\* Faulty variant: the reset that forgets has_job.
prep_keeps_has_job ==
    /\ has_job' = has_job
    /\ instructions_file' = None
    /\ instructions_type' = None
    /\ data_path' = None
    /\ num_workers' = None
    /\ partition_num' = None

\* Client.prep_for_new_job
prep_for_new_job ==
    /\ has_job' = FALSE
    /\ instructions_file' = None
    /\ instructions_type' = None
    /\ data_path' = None
    /\ num_workers' = None
    /\ partition_num' = None

\* The die method, first two elements: out_file.close() and the append of
\* JobDoneMessage(out_path).
DieEnqueue ==
    /\ task_pc = "running"
    /\ out_open' = FALSE
    /\ Enqueue(JobDoneMessage(Val(out_path)))
    /\ task_pc' = "resetting"
    /\ UNCHANGED <<context, message_read_queue, processed, reactor, wire>>
    /\ UNCHANGED <<hb_pc, beats, out_path, fs_fresh>>
    /\ UNCHANGED aux

\* The die method, last element: self.prep_for_new_job().
DieReset ==
    /\ task_pc = "resetting"
    /\ prep_for_new_job
    /\ task_pc' = "finished"
    /\ UNCHANGED <<queues, reactor, wire, hist>>
    /\ UNCHANGED <<hb_pc, beats, out_path, out_open, fs_fresh>>
    /\ UNCHANGED aux

\* Faulty variant: run() returns while the die method is still at work.
TaskReturnEarly ==
    /\ pc = "task"
    /\ task_pc \in {"resetting", "finished"}
    /\ pc' = "select"
    /\ task_pc' = IF task_pc = "finished" THEN "none" ELSE task_pc
    /\ out_path' = IF task_pc = "finished" THEN None ELSE out_path
    /\ beats' = 0
    /\ UNCHANGED <<context, queues, error, sel, wire, hist>>
    /\ UNCHANGED <<hb_pc, out_open, fs_fresh>>
    /\ UNCHANGED aux

\* task.run() returns and do_processing with it; task and out_path go out
\* of scope.
TaskReturn ==
    /\ pc = "task"
    /\ task_pc = "finished"
    /\ pc' = "select"
    /\ task_pc' = "none"
    /\ out_path' = None
    /\ beats' = 0
    /\ UNCHANGED <<context, queues, error, sel, wire, hist>>
    /\ UNCHANGED <<hb_pc, out_open, fs_fresh>>
    /\ UNCHANGED aux

\* ------------------------------------------------------------ Client.run
\* select.select([sock], [sock] or [], []): blocks until the socket is
\* readable or, asked only with a non-empty outbound queue, writable.
Select ==
    /\ pc = "select"
    /\ net # <<>> \/ (message_write_queue # <<>> /\ sock_writable)
    /\ sel' = [r |-> net # <<>>,
               w |-> message_write_queue # <<>> /\ sock_writable]
    /\ pc' = "read"
    /\ UNCHANGED <<context, queues, error, wire, taskv, hist>>
    /\ UNCHANGED aux

\* Faulty variant: every frame that has arrived is read in one iteration.
ReceiveAll ==
    /\ pc = "read"
    /\ pc' = "write"
    /\ IF sel.r
       THEN /\ message_read_queue' = message_read_queue \o net
            /\ net' = <<>>
       ELSE UNCHANGED <<message_read_queue, net>>
    /\ UNCHANGED <<context, message_write_queue, error, sel, taskv, hist>>
    /\ UNCHANGED <<conn_out, sent, sock_writable, last_flush>>
    /\ UNCHANGED aux

\* if readable: connection.receive() hands over one whole frame, or None
\* while the frame is still arriving.
Receive ==
    /\ pc = "read"
    /\ pc' = "write"
    /\ \/ /\ sel.r
          /\ message_read_queue' = Append(message_read_queue, Head(net))
          /\ net' = Tail(net)
       \/ /\ sel.r
          /\ UNCHANGED <<message_read_queue, net>>
       \/ /\ ~sel.r
          /\ UNCHANGED <<message_read_queue, net>>
    /\ UNCHANGED <<context, message_write_queue, error, sel, taskv, hist>>
    /\ UNCHANGED <<conn_out, sent, sock_writable, last_flush>>
    /\ UNCHANGED aux

\* Faulty variant: pop() for pop(0), the newest message first.
RECURSIVE DrainNewestFirst(_, _)
DrainNewestFirst(pending, queue) ==
    IF queue = <<>> THEN pending
    ELSE DrainNewestFirst(send_message(pending, queue[Len(queue)]),
                          SubSeq(queue, 1, Len(queue) - 1))

\* while self.message_write_queue: pop(0), connection.send_message: the
\* queue joins the connection's pending output, oldest first.
RECURSIVE Drain(_, _)
Drain(pending, queue) ==
    IF queue = <<>> THEN pending
    ELSE Drain(send_message(pending, Head(queue)), Tail(queue))

\* if writeable: every queued message goes to the connection and the
\* connection writes. The iteration ends: readable and writeable are dead
\* until the next select.
Flush ==
    /\ pc = "write"
    /\ pc' = "proc"
    /\ sel' = [r |-> FALSE, w |-> FALSE]
    /\ \/ /\ sel.w
          /\ ConnectionWrite(Drain(conn_out, message_write_queue))
          /\ message_write_queue' = <<>>
          /\ last_flush' = message_write_queue
       \/ /\ ~sel.w
          /\ UNCHANGED <<message_write_queue, wire>>
    /\ net' = net
    /\ UNCHANGED <<context, message_read_queue, error, taskv, hist>>
    /\ UNCHANGED aux

\* ------------------------------------------------------------ environment
\* Frames the server has sent so far.
ServerSent == Len(net) + Len(message_read_queue) + Len(processed)

\* The server sends one more frame, up to limit frames in a run.
ServerSend(m, limit) ==
    /\ pc # "crashed"
    /\ ServerSent < limit
    /\ net' = Append(net, m)
    /\ UNCHANGED <<context, queues, reactor, taskv, hist>>
    /\ UNCHANGED <<conn_out, sent, sock_writable, last_flush>>
    /\ UNCHANGED aux

\* The server reads: the send buffer has room again.
SocketDrains ==
    /\ ~sock_writable
    /\ sock_writable' = TRUE
    /\ UNCHANGED <<context, queues, reactor, taskv, hist>>
    /\ UNCHANGED <<net, conn_out, sent, last_flush>>
    /\ UNCHANGED aux

ClientStep ==
    \/ DoProcessing
    \/ Select
    \/ Receive
    \/ Flush
    \/ BeatSend
    \/ BeatWrite
    \/ DieEnqueue
    \/ DieReset
    \/ TaskReturn

\* A server that runs job cycles with well-formed mapper jobs.
Next ==
    \/ ClientStep
    \/ SocketDrains
    \/ \E m \in CycleMsgs : ServerSend(m, MaxInbound)

Spec == Init /\ [][Next]_vars

\* A server that sends any frame of the job vocabulary, well formed or not.
NextDispatch ==
    \/ ClientStep
    \/ SocketDrains
    \/ \E m \in JobMsgs : ServerSend(m, MaxDispatch)

SpecDispatch == Init /\ [][NextDispatch]_vars

\* ------------------------------------------------------- a second Client
\* self.message_write_queue and self.message_read_queue of an instance:
\* the class body binds the two lists, __init__ and the methods assign
\* neither name on self, so for every instance the lookup ends at the one
\* list of the class.
write_queue_of(inst) == message_write_queue
read_queue_of(inst) == message_read_queue

\* Client() once more in the same process: __init__ sets the new object's
\* own fields and touches no queue.
ConstructClient(inst) ==
    /\ inst \notin instances
    /\ instances' = instances \cup {inst}
    /\ UNCHANGED <<context, queues, reactor, wire, taskv, hist>>
    /\ UNCHANGED <<codec_msg, codec_hdr, codec_body>>

\* The first client runs; a second one is constructed at some moment and
\* not run.
NextTwo ==
    \/ ClientStep
    \/ SocketDrains
    \/ \E m \in CycleMsgs : ServerSend(m, MaxDispatch)
    \/ ConstructClient("B")

SpecTwo == Init /\ [][NextTwo]_vars

\* ---------------------------------------------------------------- encoding
MaxBodyLen == 2

\* MessageTypes.<name>.value
OpcodeValue(m_type) ==
    CASE m_type = "SUBSCRIBE_MESSAGE" -> 1
      [] m_type = "SUBSCRIBE_ACK_MESSAGE" -> 2
      [] m_type = "JOB_READY" -> 4
      [] m_type = "JOB_READY_TO_RECEIVE" -> 5
      [] m_type = "JOB_INSTRUCTIONS_FILE" -> 6
      [] m_type = "JOB_INSTRUCTIONS_FILE_ACK" -> 7
      [] m_type = "DATAFILE" -> 8
      [] m_type = "DATAFILE_ACK" -> 9
      [] m_type = "JOB_START" -> 10
      [] m_type = "JOB_HEARTBEAT" -> 12
      [] m_type = "JOB_DONE" -> 13
      [] m_type = "CLIENT_ERROR" -> 99

\* struct.pack('!i', n) for 0 <= n < 2^31: four bytes, most significant
\* first; UnpackInt reads them back.
PackInt(n) ==
    <<(n \div 16777216) % 256, (n \div 65536) % 256, (n \div 256) % 256,
      n % 256>>
UnpackInt(b) == ((b[1] * 256 + b[2]) * 256 + b[3]) * 256 + b[4]

\* struct.pack('<n>s', b): exactly n bytes, b cut short or padded with
\* zero bytes.
PackBytes(n, b) ==
    [i \in 1..n |-> IF i <= Len(b) THEN b[i] ELSE 0]

\* Message.get_header_for_send(): the opcode byte and len(self._body), the
\* length of the str, or 0 for a body that is None or empty.
get_header_for_send(message) ==
    LET n == IF message.body = None \/ Val(message.body) = <<>> THEN 0
             ELSE Len(Val(message.body))
    IN  <<OpcodeValue(message.m_type)>> \o PackInt(n)

\* Message.get_body_for_send(): len(None) raises TypeError; otherwise the
\* encoded body packed into len(self._body) bytes.
get_body_for_send(message) ==
    IF message.body = None THEN Raise("TypeError")
    ELSE Ret(PackBytes(Len(Val(message.body)),
                       Utf8Encode(Val(message.body))))

\* The length field of a header.
HeaderLength(header) == UnpackInt(SubSeq(header, 2, 5))

\* Bodies of up to MaxBodyLen characters over '/', 'w' and '\u00e9', on the
\* opcodes a client sends a body with.
CodecChars == {47, 119, 233}
CodecTexts == UNION {[1..k -> CodecChars] : k \in 0..MaxBodyLen}
CodecTypes == {"JOB_DONE", "JOB_HEARTBEAT", "CLIENT_ERROR"}
CodecInputs ==
    {Message(t, b) : t \in CodecTypes,
                     b \in {None} \cup {Some(x) : x \in CodecTexts}}

\* A message is handed to the codec.
InitCodec ==
    /\ ClientInit
    /\ instances = {"A"}
    /\ codec_msg \in {Some(m) : m \in CodecInputs}
    /\ codec_hdr = None
    /\ codec_body = None

EncodeHeader ==
    /\ codec_msg # None
    /\ codec_hdr = None
    /\ codec_hdr' = Some(get_header_for_send(Val(codec_msg)))
    /\ UNCHANGED <<context, queues, reactor, wire, taskv, hist>>
    /\ UNCHANGED <<instances, codec_msg, codec_body>>

EncodeBody ==
    /\ codec_msg # None
    /\ codec_body = None
    /\ codec_body' = Some(get_body_for_send(Val(codec_msg)))
    /\ UNCHANGED <<context, queues, reactor, wire, taskv, hist>>
    /\ UNCHANGED <<instances, codec_msg, codec_hdr>>

NextCodec ==
    \/ EncodeHeader
    \/ EncodeBody

SpecCodec == InitCodec /\ [][NextCodec]_vars

\* ================================================================ claims
Last(q) == q[Len(q)]

\* do_processing is about to dequeue a message of type t ...
AtHead(t) ==
    /\ pc = "proc"
    /\ message_read_queue # <<>>
    /\ Head(message_read_queue).m_type = t

\* ... and this step is that call of do_processing.
Dequeues(t) ==
    /\ AtHead(t)
    /\ processed' = Append(processed, Head(message_read_queue))

JobContextUnchanged ==
    /\ has_job' = has_job
    /\ instructions_file' = instructions_file
    /\ instructions_type' = instructions_type
    /\ data_path' = data_path
    /\ num_workers' = num_workers
    /\ partition_num' = partition_num

\* C1. Duplicate suppression: a JOB_READY dequeued by do_processing while
\* has_job is true appends nothing to the outbound queue and leaves every
\* field of the job context as it was.
C1_DuplicateSuppressed ==
    [][(Dequeues("JOB_READY") /\ has_job)
        => /\ message_write_queue' = message_write_queue
           /\ enqueued' = enqueued
           /\ JobContextUnchanged]_vars

\* A second JOB_READY has been processed while the first job was held.
C1_Witness ==
    /\ Len(processed) = 2
    /\ processed[1].m_type = "JOB_READY"
    /\ processed[2].m_type = "JOB_READY"
    /\ has_job
    /\ pc = "select"

\* C2. A JOB_READY dequeued by do_processing while has_job is false sets
\* has_job and appends exactly one JOB_READY_TO_RECEIVE at the tail of the
\* outbound queue; no other field of the job context changes.
C2_JobReadyAccepted ==
    [][(Dequeues("JOB_READY") /\ ~has_job)
        => /\ has_job' = TRUE
           /\ message_write_queue' =
                 Append(message_write_queue,
                        [m_type |-> "JOB_READY_TO_RECEIVE", body |-> <<>>])
           /\ instructions_file' = instructions_file
           /\ instructions_type' = instructions_type
           /\ data_path' = data_path
           /\ num_workers' = num_workers
           /\ partition_num' = partition_num]_vars

\* The first JOB_READY has been processed.
C2_Witness ==
    /\ Len(processed) = 1
    /\ processed[1].m_type = "JOB_READY"
    /\ has_job
    /\ message_write_queue # <<>>
    /\ Last(message_write_queue).m_type = "JOB_READY_TO_RECEIVE"

TypesOf(q) == [i \in 1..Len(q) |-> q[i].m_type]
CountOf(q, t) == Cardinality({i \in 1..Len(q) : q[i].m_type = t})
NonBeat(q) == SelectSeq(q, LAMBDA m : m.m_type # "JOB_HEARTBEAT")
EmptyContext == <<FALSE, <<>>, <<>>, <<>>, <<>>, <<>>>>

\* The end-to-end scenario: one well-formed mapper job.
E2EInbound == <<JobReady, InstrMapper, DataFile, JobStart>>
E2EReplies == <<"SUBSCRIBE_MESSAGE", "JOB_READY_TO_RECEIVE",
                "JOB_INSTRUCTIONS_FILE_ACK", "DATAFILE_ACK", "JOB_DONE">>

C4_FifoPreserved ==
    NonBeat(sent \o conn_out) \o message_write_queue = enqueued

\* Three replies queued while the socket was full went out in one flush.
C4_Witness ==
    /\ Len(last_flush) >= 3
    /\ message_write_queue = <<>>
    /\ Len(processed) >= 3
    /\ SubSeq(sent, Len(sent) - Len(last_flush) + 1, Len(sent)) = last_flush

\* C5. Completion hook: it runs once per started task; it appends one
\* JOB_DONE whose body is the job's output path, leaving the context as it
\* is, and then resets the six context fields, appending nothing; a
\* JOB_READY processed next after the job is accepted.
C5_CompletionHook ==
    /\ [](CountOf(enqueued, "JOB_DONE")
             = fs_fresh - (IF task_pc = "running" THEN 1 ELSE 0))
    /\ [][(task_pc = "running" /\ task_pc' = "resetting")
            => /\ message_write_queue' =
                     Append(message_write_queue,
                            [m_type |-> "JOB_DONE", body |-> out_path])
               /\ out_path = <<get_writeable_file_path(fs_fresh - 1)>>
               /\ JobContextUnchanged]_vars
    /\ [][(task_pc = "resetting" /\ task_pc' = "finished")
            => /\ Last(enqueued).m_type = "JOB_DONE"
               /\ message_write_queue' = message_write_queue
               /\ context' = EmptyContext]_vars
    /\ [][(Dequeues("JOB_READY") /\ processed # <<>>
              /\ Last(processed).m_type = "JOB_START")
            => /\ has_job' = TRUE
               /\ Last(message_write_queue').m_type = "JOB_READY_TO_RECEIVE"
               /\ Len(message_write_queue') = Len(message_write_queue) + 1]_vars

\* A job has completed and the next JOB_READY has been accepted.
C5_Witness ==
    /\ processed = E2EInbound \o <<JobReady>>
    /\ has_job
    /\ TypesOf(enqueued) = E2EReplies \o <<"JOB_READY_TO_RECEIVE">>

\* C6. Initial state: until the client has written to or read from the
\* connection the outbound queue holds exactly one message, a SUBSCRIBE,
\* and the inbound queue is empty; the first message written is SUBSCRIBE,
\* and there is never more than one SUBSCRIBE on the connection.
C6_SubscribeFirst ==
    /\ (sent = <<>> /\ ServerSent = Len(net))
          => /\ message_write_queue =
                   <<[m_type |-> "SUBSCRIBE_MESSAGE", body |-> <<>>]>>
             /\ message_read_queue = <<>>
    /\ sent # <<>> => sent[1].m_type = "SUBSCRIBE_MESSAGE"
    /\ CountOf(sent \o conn_out \o message_write_queue, "SUBSCRIBE_MESSAGE") = 1

\* SUBSCRIBE has been written and a heartbeat after it.
C6_Witness ==
    /\ Len(sent) >= 2
    /\ sent[1].m_type = "SUBSCRIBE_MESSAGE"
    /\ CountOf(sent, "JOB_HEARTBEAT") >= 1

\* Well-formed instruction bodies and the four fields each one carries:
\* 'm;;Mapper;;2;;0', 'm;;Reducer;;2;;7', 'm;;Combiner;;2;;0'.
InstrCases ==
    { [msg |-> InstrMapper, ref |-> <<109>>,
       kind |-> <<77, 97, 112, 112, 101, 114>>, workers |-> 2, partition |-> 0],
      [msg |-> InstrReducer, ref |-> <<109>>,
       kind |-> <<82, 101, 100, 117, 99, 101, 114>>, workers |-> 2, partition |-> 7],
      [msg |-> InstrCombiner, ref |-> <<109>>,
       kind |-> <<67, 111, 109, 98, 105, 110, 101, 114>>, workers |-> 2,
       partition |-> 0] }

\* C7. A JOB_INSTRUCTIONS_FILE whose body is four ';;'-joined fields
\* (reference, kind, decimal worker count, decimal partition number),
\* dequeued in any job context, sets instructions_file, instructions_type,
\* num_workers and partition_num to those fields (the last two as
\* integers), appends exactly one JOB_INSTRUCTIONS_FILE_ACK and leaves
\* has_job and data_path unchanged.
C7_InstructionsParsed ==
    [][\A c \in InstrCases :
          (Dequeues("JOB_INSTRUCTIONS_FILE") /\ Head(message_read_queue) = c.msg)
          => /\ instructions_file' = <<c.ref>>
             /\ instructions_type' = <<c.kind>>
             /\ num_workers' = <<c.workers>>
             /\ partition_num' = <<c.partition>>
             /\ message_write_queue' =
                   Append(message_write_queue,
                          [m_type |-> "JOB_INSTRUCTIONS_FILE_ACK", body |-> <<>>])
             /\ has_job' = has_job
             /\ data_path' = data_path]_vars

\* Reducer instructions have replaced mapper instructions while a job is
\* held.
C7_Witness ==
    /\ Len(processed) = 3
    /\ processed[2] = InstrMapper
    /\ processed[3] = InstrReducer
    /\ has_job
    /\ instructions_type = <<ReducerStr>>
    /\ num_workers = <<2>>
    /\ partition_num = <<7>>
    /\ Last(enqueued).m_type = "JOB_INSTRUCTIONS_FILE_ACK"

\* C8. A DATAFILE dequeued in any job context sets data_path to the
\* message body (the text '/\u00e9' of the three body bytes), appends
\* exactly one DATAFILE_ACK and leaves the other five context fields
\* unchanged.
C8_DataFileStored ==
    [][(Dequeues("DATAFILE") /\ Head(message_read_queue).body = <<<<47, 195, 169>>>>)
        => /\ data_path' = <<<<47, 233>>>>
           /\ message_write_queue' =
                 Append(message_write_queue,
                        [m_type |-> "DATAFILE_ACK", body |-> <<>>])
           /\ has_job' = has_job
           /\ instructions_file' = instructions_file
           /\ instructions_type' = instructions_type
           /\ num_workers' = num_workers
           /\ partition_num' = partition_num]_vars

\* A DATAFILE has been stored in a context that holds instructions.
C8_Witness ==
    /\ processed # <<>>
    /\ Last(processed).m_type = "DATAFILE"
    /\ data_path = <<<<47, 233>>>>
    /\ instructions_file # <<>>
    /\ Last(enqueued).m_type = "DATAFILE_ACK"

\* C9. A JOB_INSTRUCTIONS_FILE with fewer than four fields, or with a
\* worker count or partition number that is no decimal integer, fails with
\* the protocol error MalformedInstructions: no acknowledgement is queued
\* and none of instructions_file, instructions_type, num_workers,
\* partition_num is changed by the failed message.
C9_MalformedRejected ==
    [][(Dequeues("JOB_INSTRUCTIONS_FILE")
           /\ Head(message_read_queue) \in {InstrThreeFields, InstrBadCount})
        => /\ error' = "MalformedInstructions"
           /\ message_write_queue' = message_write_queue
           /\ instructions_file' = instructions_file
           /\ instructions_type' = instructions_type
           /\ num_workers' = num_workers
           /\ partition_num' = partition_num]_vars

\* C10. JOB_START processed with data set and an instructions_type that is
\* neither 'Mapper' nor 'Reducer' raises UnsupportedInstructionKind: no
\* output stream is opened, no task runs and no JOB_DONE is queued.
C10_UnsupportedKindRejected ==
    [][(Dequeues("JOB_START")
           /\ data_path # <<>>
           /\ instructions_type # <<>>
           /\ instructions_type \notin {<<MapperStr>>, <<ReducerStr>>})
        => /\ error' = "UnsupportedInstructionKind"
           /\ ~out_open'
           /\ task_pc' = "none"
           /\ message_write_queue' = message_write_queue]_vars


\* C11. Job-level failures do not stop the client: when processing JOB_START
\* fails, because the kind is unsupported or because the computation the
\* instructions name cannot be resolved or loaded, a CLIENT_ERROR message is
\* appended to the outbound queue and the reactor loop goes on to its
\* select, so later inbound messages are still read and processed.
C11_JobFailureReported ==
    [][(Dequeues("JOB_START")
           /\ instructions_file # None
           /\ data_path # None
           /\ task_pc' = "none")
        => /\ pc' = "select"
           /\ Len(message_write_queue') = Len(message_write_queue) + 1
           /\ Last(message_write_queue').m_type = "CLIENT_ERROR"]_vars

C13_LengthIsByteCount ==
    (codec_msg # None /\ Val(codec_msg).body # None)
    => LET encoded == Utf8Encode(Val(Val(codec_msg).body))
       IN  /\ (codec_hdr # None
                => HeaderLength(Val(codec_hdr)) = Len(encoded))
           /\ ((codec_body # None /\ Val(codec_body).exc = "none")
                => Val(Val(codec_body).val) = encoded)

\* The order in which run visits its steps: do_processing, select, the
\* read, the flush, and do_processing again; a task runs inside
\* do_processing.
LoopOrder ==
    {<<"proc", "select">>, <<"proc", "task">>, <<"proc", "crashed">>,
     <<"task", "select">>, <<"select", "read">>, <<"read", "write">>,
     <<"write", "proc">>}

\* C14. One message per iteration: an iteration of the reactor loop removes
\* at most one message from the inbound queue, the oldest, and dispatches
\* it, in its do_processing step; it reads at most one new message from
\* the connection, the oldest that arrived, to the end of the inbound
\* queue, in its read step, however many have arrived; so messages are
\* dispatched in the order received.
C14_OnePerIteration ==
    [][/\ (pc' # pc => <<pc, pc'>> \in LoopOrder)
       /\ (processed' # processed
            => /\ pc = "proc" /\ pc' # "proc"
               /\ message_read_queue # <<>>
               /\ processed' = Append(processed, Head(message_read_queue))
               /\ message_read_queue' = Tail(message_read_queue))
       /\ (message_read_queue' # message_read_queue
            => \/ processed' # processed
               \/ /\ pc = "read" /\ pc' = "write"
                  /\ net # <<>>
                  /\ message_read_queue'
                         = Append(message_read_queue, Head(net))
                  /\ net' = Tail(net))
       /\ (net' # net
            => \/ /\ net # <<>>
                  /\ message_read_queue'
                         = Append(message_read_queue, Head(net))
                  /\ net' = Tail(net)
               \/ /\ Len(net') = Len(net) + 1
                  /\ SubSeq(net', 1, Len(net)) = net
                  /\ message_read_queue' = message_read_queue)]_vars

\* Two frames are still waiting on the connection after the read step took
\* one in, following an earlier dispatch.
C14_Witness ==
    /\ pc = "write"
    /\ Len(message_read_queue) = 1
    /\ Len(net) >= 2
    /\ processed # <<>>

\* C15. Single-writer discipline: a heartbeat write (the hook's
\* send_message and write) and a write of the reactor (the flush of run) are
\* never in progress at the same time: the reactor flushes only while no
\* heartbeat stands between its send_message and its write, so the bytes of
\* a JOB_HEARTBEAT frame never interleave with those of another frame.
C15_SingleWriter ==
    [][(pc = "write" /\ sel.w /\ pc' = "proc") => hb_pc = "idle"]_vars

\* C16. Transmission order equals production order for heartbeats: a
\* JOB_HEARTBEAT is never transmitted ahead of a message that was appended
\* to the outbound queue before the heartbeat was produced. While the task
\* runs, every message in the outbound queue was appended before the task
\* started, so when a heartbeat of the running task reaches the socket the
\* outbound queue holds no message.
C16_HeartbeatInOrder ==
    [][(task_pc = "running"
           /\ CountOf(sent', "JOB_HEARTBEAT") > CountOf(sent, "JOB_HEARTBEAT"))
        => message_write_queue = <<>>]_vars

\* The messages appended to the outbound queue after the last JOB_DONE.
SinceLastDone(q) ==
    LET dones == {i \in 1..Len(q) : q[i].m_type = "JOB_DONE"}
        last == CHOOSE i \in dones : \A j \in dones : j <= i
    IN  SubSeq(q, last + 1, Len(q))

C18_JobDoneTransmitted ==
    pc = "crashed" => CountOf(message_write_queue, "JOB_DONE") = 0

\* C19. The queues are per-instance state: each Client starts with its own
\* outbound queue holding the one SUBSCRIBE and its own empty inbound queue,
\* and nothing another instance appends or removes shows in them. A second
\* instance that is constructed and never run therefore has the outbound
\* queue <<SUBSCRIBE>> and an empty inbound queue, whatever the first
\* instance has done or does.
C19_QueuesPerInstance ==
    "B" \in instances
    => /\ write_queue_of("B") = InitialWriteQueue
       /\ read_queue_of("B") = <<>>

\* The opcodes do_processing has a branch for.
HandledTypes == {"JOB_READY", "JOB_INSTRUCTIONS_FILE", "DATAFILE", "JOB_START"}

\* C20. When do_processing dequeues a message whose opcode is none of
\* JOB_READY, JOB_INSTRUCTIONS_FILE, DATAFILE, JOB_START (a SUBSCRIBE_ACK
\* for one), the message is consumed, the job context is unchanged and
\* nothing is appended to the outbound queue; run goes on to its select.
\* With an empty inbound queue do_processing changes nothing at all.
C20_OtherOpcodesIgnored ==
    [][/\ ((pc = "proc" /\ pc' # pc
                /\ message_read_queue # <<>>
                /\ Head(message_read_queue).m_type \notin HandledTypes)
            => /\ message_read_queue' = Tail(message_read_queue)
               /\ processed' = Append(processed, Head(message_read_queue))
               /\ pc' = "select"
               /\ UNCHANGED <<context, message_write_queue, enqueued>>
               /\ UNCHANGED <<error, wire, taskv>>)
       /\ ((pc = "proc" /\ pc' # pc /\ message_read_queue = <<>>)
            => /\ pc' = "select"
               /\ UNCHANGED <<context, queues, hist>>
               /\ UNCHANGED <<error, wire, taskv>>)]_vars

\* A SUBSCRIBE_ACK has been consumed in a context that holds a job's
\* instructions, with a reply still queued.
C20_Witness ==
    /\ pc = "select"
    /\ processed # <<>>
    /\ Last(processed).m_type = "SUBSCRIBE_ACK_MESSAGE"
    /\ instructions_file # None
    /\ message_write_queue # <<>>

=============================================================================
